---- MODULE Spec2Model ----
(***************************************************************************)
(* A model of pc-backup's asyncio engine (sdk.py): one run of main() reads *)
(* the persisted index, walks the configured root, diffs the new index     *)
(* against the bucket listing and the old index, and deletes/uploads       *)
(* concurrently under the MAX_ACTIVE_TASKS admission loop of               *)
(* update_bucket.  Strings are sequences of one-character strings so that  *)
(* str.lstrip("/") is computed rather than assumed.                        *)
(***************************************************************************)
EXTENDS Integers, Sequences, FiniteSets, TLC

\* ---------------------------------------------------------------- bounds
MaxTasks == 3       \* MAX_ACTIVE_TASKS ranges over 1..MaxTasks
MaxRuns == 2        \* successive runs of the script
MaxFsEvents == 1    \* files removed by other processes while a run is going
MaxFailures == 1    \* store calls that fail (refused by the store, or the network fails)
MaxInstances == 2   \* instances of the script that are started
MaxKeys == 2500     \* keys to delete in one run
MaxUnits == 6       \* calls of handle_object that execute_threads is given
MaxCpus == 1        \* os.cpu_count() ranges over 1..MaxCpus
MaxRoots == 2       \* directories listed in DIRECTORIES

\* file names that may exist below the configured root
Names == {"a", "b"}

\* st_mtime of a file on disk: 0 (falsy), or one of two times.  The code only tests
\* an mtime for truth and compares two of them for equality.
Mtimes == 0..2

\* the mtime a persisted index holds for a path when the first run starts
IndexedMtimes == {1}

\* st_size of a file on disk; the code only orders sizes
Sizes == 1..2

\* the size of an object that is in the bucket when the first run starts
ObjectSizes == {1}

\* -------------------------------------------------------------- strings
RECURSIVE lstrip(_)
\* key.lstrip("/"): drop every leading "/"
lstrip(s) == IF s # <<>> /\ Head(s) = "/" THEN lstrip(Tail(s)) ELSE s

\* the two ways DIRECTORIES can name the root: "/r" and "r"
RootChoices == {<<"/", "r">>, <<"r">>}

\* current_dir_path / file_name, then str(file_path)
file_path(root, name) == root \o <<"/", name>>

\* a dict with no entry
EmptyDict == [p \in {} |-> 0]

\* the name of the file a path of the index denotes
NameOf(path) == path[Len(path)]

\* all permutations (as sequences) of a finite set: list(a_set) has no fixed order
Lists(S) == {q \in [1..Cardinality(S) -> S] : \A i, j \in 1..Cardinality(S) : q[i] = q[j] => i = j}

Range(q) == {q[i] : i \in DOMAIN q}

Min(x, y) == IF x <= y THEN x ELSE y

\* ------------------------------------------------------------ constants
\* delete_objects takes at most 1000 keys per request
BATCH == 1000

\* --------------------------------------------------------------- state
VARIABLES
    DIRECTORIES,       \* the configured root (config.json), as a string
    MAX_ACTIVE_TASKS,  \* int(MAX_POOL_SIZE) or cpu_count()
    readable,          \* whether the root can be listed at all
    fs,                \* files below the root: name -> [mtime, size]
    store,             \* the bucket: key -> object size
    index_file,        \* logs/index.json: [exists, content]
    pc,                \* where main() is
    run,               \* number of the current run of the script
    old_index,         \* main's old_index
    new_index,         \* main's new_index
    bucket_files,      \* compute_diff's listing of the bucket
    data,              \* compute_diff's result
    coros,             \* update_bucket's coros, in order
    task,              \* per coroutine: pending/created/active/ok/logged/raised/...
    next_coro,         \* position of update_bucket's for loop in coros
    error,             \* what made main raise: none/list/stat/group
    fsEvents,          \* files removed so far by other processes
    failures,          \* store calls that have failed so far
    missing_upload,    \* upload_file was called for a file that is not on disk
    index_file0,       \* logs/index.json as it was when the run started
    prev,              \* the previous run: how it ended, its units, its failed uploads
    store0,            \* the bucket as it was when the run started
    store_calls,       \* calls of the store's client made so far in the run
    procs,             \* the process table: the instances of the script
    tree,              \* the files below a root: path (its parts) -> st_mtime
    walk,              \* compute_dir_index walking that root
    bulk,              \* the keys to delete, and their batches
    pool,              \* the thread pool of execute_threads
    merge              \* compute_index: the per-root snapshots and their merge

\* the variables of one run of sdk.py
mainvars == <<DIRECTORIES, MAX_ACTIVE_TASKS, readable, fs, store, index_file, pc, run,
              old_index, new_index, bucket_files, data, coros, task, next_coro, error,
              fsEvents, failures, missing_upload, index_file0, prev, store0, store_calls>>

\* the variables of the other parts of the repository
others == <<procs, tree, walk, bulk, pool, merge>>

vars == <<mainvars, others>>

env == <<DIRECTORIES, MAX_ACTIVE_TASKS, readable>>

\* all dicts whose keys are a subset of K and whose values are in V
Dicts(K, V) == UNION {[S -> V] : S \in SUBSET K}

FileRecords == [mtime : Mtimes, size : Sizes]

NoData == [deleted |-> <<>>, created |-> <<>>, modified |-> <<>>]

\* ------------------------------------------------------ compute_dir_index
\* root_dir.walk() ignores the errors of scandir: an unreadable root yields
\* nothing.  A file is recorded when it exists and its st_mtime is truthy.
compute_dir_index(root) ==
    LET found == IF readable THEN {n \in DOMAIN fs : fs[n].mtime # 0} ELSE {}
    IN  [p \in {file_path(root, n) : n \in found} |-> fs[NameOf(p)].mtime]

\* ------------------------------------------------------------ compute_diff
\* Deleted with the operands of the set difference swapped
Deleted_swapped(new, bucket) == DOMAIN new \ bucket

\* bucket_files - new_index_files
Deleted(new, bucket) == bucket \ DOMAIN new

\* new_index_files - bucket_files
Created(new, bucket) == DOMAIN new \ bucket

\* the common files, whatever their mtimes
Modified_common(new, old) == DOMAIN old \cap DOMAIN new

\* common files whose mtimes differ
Modified(new, old) == {f \in DOMAIN old \cap DOMAIN new : new[f] # old[f]}

\* ----------------------------------------------------------- update_bucket
\* [to_delete[i : i + 1000] for i in range(0, len(to_delete), 1000)]
\* the batches without the last, shorter one
Chunks_floor(s, n) ==
    [k \in 1..(Len(s) \div n) |-> SubSeq(s, (k - 1) * n + 1, Min(k * n, Len(s)))]

\* [to_delete[i : i + 1000] for i in range(0, len(to_delete), 1000)]
Chunks(s, n) ==
    [k \in 1..((Len(s) + n - 1) \div n) |-> SubSeq(s, (k - 1) * n + 1, Min(k * n, Len(s)))]

\* x is put last, whatever its key
InsertBy_last(x, s, key) == Append(s, x)

\* list.sort(key=...) is stable: x goes after every element whose key is <= its own
InsertBy(x, s, key) ==
    LET before == {i \in 0..Len(s) : \A j \in 1..i : key[s[j]] <= key[x]}
        k == CHOOSE i \in before : \A j \in before : j <= i
    IN  SubSeq(s, 1, k) \o <<x>> \o SubSeq(s, k + 1, Len(s))

RECURSIVE SortBy(_, _)
SortBy(s, key) ==
    IF s = <<>> THEN <<>>
    ELSE InsertBy(s[Len(s)], SortBy(SubSeq(s, 1, Len(s) - 1), key), key)

\* the coroutine of one delete batch / of one upload
DeleteCoro(keys) == [kind |-> "delete", keys |-> keys, path |-> <<>>]
UploadCoro(path) == [kind |-> "upload", keys |-> <<>>, path |-> path]

\* tasks of the event loop that are not done, apart from the task running main
UnitsNotDone == {i \in DOMAIN task : task[i] \in {"created", "active"}}

\* active_tasks with the test of done() inverted: it counts the finished tasks
active_tasks_done == Cardinality({i \in DOMAIN task : task[i] \in {"ok", "logged", "raised", "cancelled"}})

\* sum(1 for t in asyncio.all_tasks() if not t.done()): the task that runs
\* main() is itself one of all_tasks() and is not done
active_tasks == 1 + Cardinality(UnitsNotDone)

\* the event loop gets control: every task created so far runs up to its thread
Started(t) == [i \in DOMAIN t |-> IF t[i] = "created" THEN "active" ELSE t[i]]

\* ------------------------------------------------------------------ utils
Instances == 1..MaxInstances

\* q.name() of an instance: the interpreter, "python3" for short "py3"
ProcName == <<"p", "y", "3">>

\* the script as it is named on the command line: "sdk.py" from its directory
\* ("s" for short) or by its absolute path ("/s")
Invocations == {<<"s">>, <<"/", "s">>}

\* str.startswith
startswith(s, prefix) == Len(prefix) <= Len(s) /\ SubSeq(s, 1, Len(prefix)) = prefix

\* a in b, for strings
contains(b, a) == \E k \in 0..(Len(b) - Len(a)) : SubSeq(b, k + 1, k + Len(a)) = a

\* q.cmdline() of an instance started as "python <script>"
cmdline(q) == <<ProcName, procs[q].argv0>>

\* the instances that are in the process table
Live == {q \in Instances : procs[q].st \in {"started", "listing", "passed", "refused", "crashed"}}

\* no instance has been started
NoProcs == [q \in Instances |-> [st |-> "idle", argv0 |-> <<>>, seen |-> {}]]

\* is_running() of instance i over the processes that process_iter listed and
\* that are still there when they are looked at
is_running(i) ==
    \E q \in procs[i].seen \cap Live :
        /\ startswith(ProcName, <<"p", "y">>)
        /\ Len(cmdline(q)) > 1
        /\ contains(cmdline(q)[2], procs[i].argv0)
        /\ i # q

\* ------------------------------------------- compute_dir_index, the walk
\* PREFIXES and SUFFIXES of config.json: hidden names, and backup copies
PREFIXES == {<<".">>}
SUFFIXES == {<<"~">>}

\* str.endswith
endswith(s, suffix) ==
    Len(suffix) <= Len(s) /\ SubSeq(s, Len(s) - Len(suffix) + 1, Len(s)) = suffix

\* permitted that only tests the prefixes
permitted_prefixes(x) == ~(\E pre \in PREFIXES : startswith(x, pre))

\* permitted = lambda x: not (x.startswith(PREFIXES) or x.endswith(SUFFIXES))
permitted(x) ==
    ~((\E pre \in PREFIXES : startswith(x, pre)) \/ (\E suf \in SUFFIXES : endswith(x, suf)))

\* the names a file or a directory may have: a, .a, a~ and d, .d, d~
FileNames == {<<"a">>, <<".", "a">>, <<"a", "~">>}
DirNames == {<<"d">>, <<".", "d">>, <<"d", "~">>}

\* the files that may exist below the root, each given by the parts of its path
AllFiles ==
    {<<f>> : f \in FileNames} \cup {<<d, <<"a">>>> : d \in DirNames}
        \cup {<<<<"d">>, <<".", "d">>, <<"a">>>>}

\* os.scandir(dir): the names of the files and of the directories in dir
FilesIn(dir) ==
    {p[Len(p)] : p \in {q \in DOMAIN tree : Len(q) = Len(dir) + 1 /\ SubSeq(q, 1, Len(dir)) = dir}}
DirsIn(dir) ==
    {p[Len(dir) + 1] : p \in {q \in DOMAIN tree : Len(q) > Len(dir) + 1 /\ SubSeq(q, 1, Len(dir)) = dir}}

\* compute_dir_index has not been called
NoWalk == [st |-> "idle", stack |-> <<>>, cur |-> <<>>, file_names |-> {},
           checked |-> <<>>, index |-> EmptyDict, removed |-> 0]

\* compute_index has not been called
NoMerge == [st |-> "idle", parts |-> <<>>, finished |-> <<>>, index |-> EmptyDict]

\* execute_threads has not been called
NoPool == [st |-> "idle", cpu_count |-> 0, max_workers |-> 0, next |-> 1, unit |-> <<>>,
           delete |-> <<>>, seen |-> {}, uploaded |-> 0, deleted |-> 0, logged |-> 0]

\* update_bucket has not been called
NoBulk == [st |-> "idle", to_delete |-> <<>>, chunks |-> <<>>]

\* ------------------------------------------------------------------ Init
\* one run of sdk.py, the guard of init_set_up having let it pass
Init ==
    /\ procs = NoProcs
    /\ tree = EmptyDict
    /\ walk = NoWalk
    /\ bulk = NoBulk
    /\ pool = NoPool
    /\ merge = NoMerge
    /\ DIRECTORIES \in RootChoices
    /\ MAX_ACTIVE_TASKS \in 1..MaxTasks
    /\ readable \in BOOLEAN
    /\ fs \in Dicts(Names, FileRecords)
    /\ ~readable => fs = EmptyDict
    \* the bucket holds keys as upload_s3_object writes them
    /\ store \in Dicts({lstrip(file_path(DIRECTORIES, n)) : n \in Names}, ObjectSizes)
    /\ \E ex \in BOOLEAN :
         \E c \in Dicts({file_path(DIRECTORIES, n) : n \in Names}, IndexedMtimes) :
            /\ ~ex => c = EmptyDict
            /\ index_file = [exists |-> ex, content |-> c]
    /\ index_file0 = index_file
    /\ store0 = store
    /\ store_calls = 0
    /\ pc = "start"
    /\ run = 1
    /\ old_index = EmptyDict
    /\ new_index = EmptyDict
    /\ bucket_files = {}
    /\ data = NoData
    /\ coros = <<>>
    /\ task = <<>>
    /\ next_coro = 1
    /\ error = "none"
    /\ fsEvents = 0
    /\ failures = 0
    /\ missing_upload = FALSE
    /\ prev = [end |-> "none", units |-> 0, failed |-> {}]

\* ------------------------------------------------------------------ main
\* old_index = json.loads(index_path.read_text()) if index_path.exists() else {}
ReadOldIndex ==
    /\ pc = "start"
    /\ old_index' = IF index_file.exists THEN index_file.content ELSE EmptyDict
    /\ pc' = "index"
    /\ UNCHANGED <<others, env, fs, store, index_file, run, new_index, bucket_files, data, coros,
                   task, next_coro, error, fsEvents, failures, missing_upload, index_file0, store0, store_calls, prev>>

\* new_index = await compute_index()
ComputeIndex ==
    /\ pc = "index"
    /\ new_index' = compute_dir_index(DIRECTORIES)
    /\ pc' = "compare"
    /\ UNCHANGED <<others, env, fs, store, index_file, run, old_index, bucket_files, data, coros,
                   task, next_coro, error, fsEvents, failures, missing_upload, index_file0, store0, store_calls, prev>>

\* CompareIndexes after the bucket was listed
CompareIndexes_listing ==
    /\ pc = "compare"
    /\ pc' = IF new_index = old_index THEN "exited" ELSE "diff"
    /\ store_calls' = store_calls + 1
    /\ UNCHANGED <<others, env, fs, store, index_file, run, old_index, new_index, bucket_files,
                   data, coros, task, next_coro, error, fsEvents, failures, missing_upload,
                   index_file0, store0, prev>>

\* if new_index == old_index: sys.exit()
CompareIndexes ==
    /\ pc = "compare"
    /\ pc' = IF new_index = old_index THEN "exited" ELSE "diff"
    /\ UNCHANGED <<others, env, fs, store, index_file, run, old_index, new_index, bucket_files,
                   data, coros, task, next_coro, error, fsEvents, failures, missing_upload,
                   index_file0, store0, store_calls, prev>>

\* data = compute_diff(new_index, old_index), the bucket listing succeeding
ComputeDiff ==
    /\ pc = "diff"
    /\ bucket_files' = DOMAIN store
    /\ \E dl \in Lists(Deleted(new_index, DOMAIN store)) :
       \E cl \in Lists(Created(new_index, DOMAIN store)) :
       \E ml \in Lists(Modified(new_index, old_index)) :
          data' = [deleted |-> dl, created |-> cl, modified |-> ml]
    /\ pc' = "stage"
    /\ store_calls' = store_calls + 1
    /\ UNCHANGED <<others, env, fs, store, index_file, run, old_index, new_index, coros, task,
                   next_coro, error, fsEvents, failures, missing_upload, index_file0, store0, prev>>

\* ComputeDiffFails with the error caught and the bucket taken to be empty
ComputeDiffFails_swallowed ==
    /\ pc = "diff"
    /\ error' = "list"
    /\ bucket_files' = {}
    /\ \E cl \in Lists(Created(new_index, {})) :
       \E ml \in Lists(Modified(new_index, old_index)) :
          data' = [deleted |-> <<>>, created |-> cl, modified |-> ml]
    /\ pc' = "stage"
    /\ store_calls' = store_calls + 1
    /\ UNCHANGED <<others, env, fs, store, index_file, run, old_index, new_index, coros, task,
                   next_coro, fsEvents, failures, missing_upload, index_file0, store0, prev>>

\* BUCKET.objects.all() raises: nothing in compute_diff or main catches it
ComputeDiffFails ==
    /\ pc = "diff"
    /\ error' = "list"
    /\ pc' = "error"
    /\ store_calls' = store_calls + 1
    /\ UNCHANGED <<others, env, fs, store, index_file, run, old_index, new_index, bucket_files,
                   data, coros, task, next_coro, fsEvents, failures, missing_upload, index_file0, store0,
                   prev>>

\* update_bucket up to the task group: batches, then uploads sorted by st_size.
\* Path(f).stat() raises for a file that is gone, before any task is created.
Stage ==
    /\ pc = "stage"
    /\ LET to_delete == Chunks([i \in DOMAIN data.deleted |-> lstrip(data.deleted[i])], BATCH)
           to_upload == data.created \o data.modified
           gone == {p \in Range(to_upload) : NameOf(p) \notin DOMAIN fs}
           size == [p \in Range(to_upload) |-> fs[NameOf(p)].size]
           sorted == SortBy(to_upload, size)
       IN  IF gone # {}
           THEN /\ error' = "stat"
                /\ pc' = "error"
                /\ UNCHANGED <<coros, task>>
           ELSE /\ coros' = [i \in DOMAIN to_delete |-> DeleteCoro(to_delete[i])]
                            \o [i \in DOMAIN sorted |-> UploadCoro(sorted[i])]
                /\ task' = [i \in 1..(Len(to_delete) + Len(sorted)) |-> "pending"]
                /\ pc' = "dispatch"
                /\ UNCHANGED error
    /\ UNCHANGED <<others, env, fs, store, index_file, run, old_index, new_index, bucket_files,
                   data, next_coro, fsEvents, failures, missing_upload, index_file0, store0, store_calls, prev>>

\* while active_tasks() >= MAX_ACTIVE_TASKS is false: tg.create_task(coro)
Admit ==
    /\ pc = "dispatch"
    /\ next_coro <= Len(coros)
    /\ ~(active_tasks >= MAX_ACTIVE_TASKS)
    /\ task' = [task EXCEPT ![next_coro] = "created"]
    /\ next_coro' = next_coro + 1
    /\ UNCHANGED <<others, env, fs, store, index_file, pc, run, old_index, new_index, bucket_files,
                   data, coros, error, fsEvents, failures, missing_upload, index_file0, store0, store_calls, prev>>

\* while active_tasks() >= MAX_ACTIVE_TASKS: await asyncio.sleep(0.25)
Block ==
    /\ pc = "dispatch"
    /\ next_coro <= Len(coros)
    /\ active_tasks >= MAX_ACTIVE_TASKS
    /\ task' = Started(task)
    /\ pc' = "sleeping"
    /\ UNCHANGED <<others, env, fs, store, index_file, run, old_index, new_index, bucket_files,
                   data, coros, next_coro, error, fsEvents, failures, missing_upload, index_file0, store0, store_calls,
                   prev>>

\* the sleep is over: the while condition is evaluated again
Wake ==
    /\ pc = "sleeping"
    /\ pc' = "dispatch"
    /\ UNCHANGED <<others, env, fs, store, index_file, run, old_index, new_index, bucket_files,
                   data, coros, task, next_coro, error, fsEvents, failures, missing_upload,
                   index_file0, store0, store_calls, prev>>

\* the for loop is over: TaskGroup.__aexit__ awaits the tasks
Join ==
    /\ pc = "dispatch"
    /\ next_coro > Len(coros)
    /\ task' = Started(task)
    /\ pc' = "joining"
    /\ UNCHANGED <<others, env, fs, store, index_file, run, old_index, new_index, bucket_files,
                   data, coros, next_coro, error, fsEvents, failures, missing_upload, index_file0, store0, store_calls,
                   prev>>

\* the store after CLIENT.delete_objects(Delete={"Objects": keys}) succeeded
AfterDelete(keys) == [k \in DOMAIN store \ Range(keys) |-> store[k]]

\* the store after CLIENT.upload_file(Filename=key, Key=key.lstrip("/")) succeeded
AfterUpload(path) ==
    [k \in DOMAIN store \cup {lstrip(path)} |->
        IF k = lstrip(path) THEN fs[NameOf(path)].size ELSE store[k]]

\* what a unit may end as.  bulk_delete_s3_objects catches ClientError and
\* BotoCoreError, which is all delete_objects raises.  upload_s3_object catches the
\* same two, but upload_file reports a request the store refuses as
\* S3UploadFailedError and a missing Filename as OSError: those leave the thread.
Outcomes(c) ==
    LET failing == IF failures < MaxFailures THEN {"logged", "raised"} ELSE {}
    IN  IF c.kind = "delete" THEN {"ok", "logged"} \cap ({"ok"} \cup failing)
        ELSE IF NameOf(c.path) \notin DOMAIN fs THEN {"raised"}
        ELSE {"ok"} \cup failing

\* whether a unit's store call was made and failed on the store's side
Failed(c, outcome) == outcome # "ok" /\ (c.kind = "delete" \/ NameOf(c.path) \in DOMAIN fs)

\* the effect of a unit's store call on the bucket
Effect(c, outcome) ==
    IF outcome # "ok" THEN store
    ELSE IF c.kind = "delete" THEN AfterDelete(c.keys) ELSE AfterUpload(c.path)

\* a unit's thread returns (or raises) while main is suspended; when it raises,
\* the task group cancels its other tasks and the task running main
ThreadFinish(i) ==
    /\ pc \in {"sleeping", "joining"}
    /\ task[i] = "active"
    /\ \E outcome \in Outcomes(coros[i]) :
         /\ store' = Effect(coros[i], outcome)
         /\ failures' = IF Failed(coros[i], outcome) THEN failures + 1 ELSE failures
         /\ IF outcome = "raised"
            THEN /\ task' = [j \in DOMAIN task |->
                               IF j = i THEN "raised"
                               ELSE IF task[j] = "active" THEN "cancelling" ELSE task[j]]
                 /\ pc' = "aborting"
            ELSE /\ task' = [task EXCEPT ![i] = outcome]
                 /\ UNCHANGED pc
    /\ missing_upload' = (missing_upload \/ (coros[i].kind = "upload"
                                             /\ NameOf(coros[i].path) \notin DOMAIN fs))
    /\ store_calls' = store_calls + 1
    /\ UNCHANGED <<others, env, fs, index_file, run, old_index, new_index, bucket_files, data,
                   coros, next_coro, error, fsEvents, index_file0, store0, prev>>

\* a cancelled task's thread: cancelled before it ran, or it runs to its end
CancelledThread(i) ==
    /\ pc = "aborting"
    /\ task[i] = "cancelling"
    /\ \E ran \in BOOLEAN :
         /\ store' = IF ran /\ "ok" \in Outcomes(coros[i])
                     THEN Effect(coros[i], "ok") ELSE store
         /\ store_calls' = IF ran THEN store_calls + 1 ELSE store_calls
         /\ missing_upload' = (missing_upload \/ (ran /\ coros[i].kind = "upload"
                                                  /\ NameOf(coros[i].path) \notin DOMAIN fs))
    /\ task' = [task EXCEPT ![i] = "cancelled"]
    /\ UNCHANGED <<others, env, fs, index_file, pc, run, old_index, new_index, bucket_files, data,
                   coros, next_coro, error, fsEvents, failures, index_file0, store0, prev>>

\* the task group re-raises as an ExceptionGroup, which main does not catch
Abort ==
    /\ pc = "aborting"
    /\ \A i \in DOMAIN task : task[i] # "cancelling"
    /\ error' = "group"
    /\ pc' = "error"
    /\ UNCHANGED <<others, env, fs, store, index_file, run, old_index, new_index, bucket_files,
                   data, coros, task, next_coro, fsEvents, failures, missing_upload, index_file0, store0, store_calls,
                   prev>>

\* Return that does not wait for the tasks
Return_early ==
    /\ pc = "joining"
    /\ pc' = "persist"
    /\ UNCHANGED <<others, env, fs, store, index_file, run, old_index, new_index, bucket_files,
                   data, coros, task, next_coro, error, fsEvents, failures, missing_upload,
                   index_file0, store0, store_calls, prev>>

\* every task is done: update_bucket returns
Return ==
    /\ pc = "joining"
    /\ \A i \in DOMAIN task : task[i] \in {"ok", "logged"}
    /\ pc' = "persist"
    /\ UNCHANGED <<others, env, fs, store, index_file, run, old_index, new_index, bucket_files,
                   data, coros, task, next_coro, error, fsEvents, failures, missing_upload,
                   index_file0, store0, store_calls, prev>>

\* WriteIndex writing the index it read instead of the one it computed
WriteIndex_old ==
    /\ pc = "persist"
    /\ index_file' = [exists |-> TRUE, content |-> old_index]
    /\ pc' = "done"
    /\ UNCHANGED <<others, env, fs, store, run, old_index, new_index, bucket_files, data, coros,
                   task, next_coro, error, fsEvents, failures, missing_upload, index_file0, store0, store_calls,
                   prev>>

\* index_path.write_text(json.dumps(new_index, indent=4))
WriteIndex ==
    /\ pc = "persist"
    /\ index_file' = [exists |-> TRUE, content |-> new_index]
    /\ pc' = "done"
    /\ UNCHANGED <<others, env, fs, store, run, old_index, new_index, bucket_files, data, coros,
                   task, next_coro, error, fsEvents, failures, missing_upload, index_file0, store0, store_calls, prev>>

\* ----------------------------------------------------------- environment
\* another process removes a file after the walk and before the run is over
RemoveFile(n) ==
    /\ pc \in {"compare", "diff", "stage", "dispatch", "sleeping", "joining"}
    /\ fsEvents < MaxFsEvents
    /\ n \in DOMAIN fs
    /\ fs' = [m \in DOMAIN fs \ {n} |-> fs[m]]
    /\ fsEvents' = fsEvents + 1
    /\ UNCHANGED <<others, env, store, index_file, pc, run, old_index, new_index, bucket_files,
                   data, coros, task, next_coro, error, failures, missing_upload, index_file0, store0, store_calls,
                   prev>>

\* the script is started again (cron) after the previous run is over
NextRun ==
    /\ pc \in {"done", "exited", "error"}
    /\ run < MaxRuns
    /\ run' = run + 1
    /\ prev' = [end |-> pc, units |-> Len(coros),
                failed |-> {coros[i].path : i \in {j \in DOMAIN coros :
                                coros[j].kind = "upload" /\ task[j] = "logged"}}]
    /\ index_file0' = index_file
    /\ store0' = store
    /\ store_calls' = 0
    /\ pc' = "start"
    /\ old_index' = EmptyDict
    /\ new_index' = EmptyDict
    /\ bucket_files' = {}
    /\ data' = NoData
    /\ coros' = <<>>
    /\ task' = <<>>
    /\ next_coro' = 1
    /\ error' = "none"
    /\ missing_upload' = FALSE
    /\ UNCHANGED <<others, env, fs, store, index_file, fsEvents, failures>>

\* the status the process ends with: sys.exit() without an argument and the end
\* of the script give 0, an exception that nothing catches gives 1
ExitStatus == IF pc = "error" THEN 1 ELSE 0

\* the steps of the script itself
Run ==
    \/ ReadOldIndex
    \/ ComputeIndex
    \/ CompareIndexes
    \/ ComputeDiff
    \/ ComputeDiffFails
    \/ Stage
    \/ Admit
    \/ Block
    \/ Wake
    \/ Join
    \/ \E i \in DOMAIN task : ThreadFinish(i)
    \/ \E i \in DOMAIN task : CancelledThread(i)
    \/ Abort
    \/ Return
    \/ WriteIndex

Next ==
    \/ Run
    \/ \E n \in Names : RemoveFile(n)

\* one run of the script, with other processes removing files meanwhile
Spec == Init /\ [][Next]_vars

\* successive runs of the script over a tree that no other process changes
NextOfRuns ==
    \/ Run
    \/ NextRun

SpecRuns == Init /\ [][NextOfRuns]_vars

\* the positions coros can have: a batch of deletes, and each file created, modified
UnitIds == 1..(1 + 2 * Cardinality(Names))

\* one run of the script, the event loop and the threads being scheduled fairly:
\* inside update_bucket main goes on whenever it can (its sleep ends, the task
\* group is left), and a thread that was started ends
SpecLive ==
    /\ Init
    /\ [][Run]_vars
    /\ WF_vars(Admit) /\ WF_vars(Block) /\ WF_vars(Wake) /\ WF_vars(Join)
    /\ WF_vars(Return) /\ WF_vars(Abort)
    /\ \A i \in UnitIds : SF_vars(i \in DOMAIN task /\ ThreadFinish(i))
    /\ \A i \in UnitIds : WF_vars(i \in DOMAIN task /\ CancelledThread(i))

\* ------------------------------------------------- init_set_up, is_running
\* sdk.py is not running: the state of main's variables in the other specifications
MainOff ==
    /\ DIRECTORIES = <<"r">>
    /\ MAX_ACTIVE_TASKS = 1
    /\ readable = TRUE
    /\ fs = EmptyDict
    /\ store = EmptyDict
    /\ index_file = [exists |-> FALSE, content |-> EmptyDict]
    /\ index_file0 = index_file
    /\ store0 = store
    /\ store_calls = 0
    /\ pc = "off"
    /\ run = 1
    /\ old_index = EmptyDict
    /\ new_index = EmptyDict
    /\ bucket_files = {}
    /\ data = NoData
    /\ coros = <<>>
    /\ task = <<>>
    /\ next_coro = 1
    /\ error = "none"
    /\ fsEvents = 0
    /\ failures = 0
    /\ missing_upload = FALSE
    /\ prev = [end |-> "none", units |-> 0, failed |-> {}]

InitGuard ==
    /\ MainOff
    /\ tree = EmptyDict
    /\ walk = NoWalk
    /\ bulk = NoBulk
    /\ pool = NoPool
    /\ merge = NoMerge
    /\ procs \in [Instances -> [st : {"idle"}, argv0 : Invocations, seen : {{}}]]

\* an instance of the script is started: python <script>
Start(i) ==
    /\ procs[i].st = "idle"
    /\ procs' = [procs EXCEPT ![i].st = "started"]
    /\ UNCHANGED <<mainvars, tree, walk, bulk, pool, merge>>

\* psutil.process_iter() reads the list of pids
ListPids(i) ==
    /\ procs[i].st = "started"
    /\ procs' = [procs EXCEPT ![i].st = "listing", ![i].seen = Live]
    /\ UNCHANGED <<mainvars, tree, walk, bulk, pool, merge>>

\* if is_running(): log and sys.exit(); otherwise init_set_up returns.  For a
\* listed process that has ended since, q.name() finds a zombie, which is skipped,
\* or nothing, and then raises NoSuchProcess, which nothing catches
Inspect(i) ==
    /\ procs[i].st = "listing"
    /\ \E st \in {IF is_running(i) THEN "refused" ELSE "passed"}
                  \cup (IF procs[i].seen \subseteq Live THEN {} ELSE {"crashed"}) :
          procs' = [procs EXCEPT ![i].st = st]
    /\ UNCHANGED <<mainvars, tree, walk, bulk, pool, merge>>

\* the process of an instance ends: after sys.exit(), or when main is over
Exit(i) ==
    /\ procs[i].st \in {"passed", "refused", "crashed"}
    /\ procs' = [procs EXCEPT ![i].st = "exited"]
    /\ UNCHANGED <<mainvars, tree, walk, bulk, pool, merge>>

NextGuard ==
    \/ \E i \in Instances : Start(i)
    \/ \E i \in Instances : ListPids(i)
    \/ \E i \in Instances : Inspect(i)
    \/ \E i \in Instances : Exit(i)

\* instances of the script starting, scanning the process table and ending
SpecGuard == InitGuard /\ [][NextGuard]_vars

\* ------------------------------------------- compute_dir_index, step by step
InitWalk ==
    /\ MainOff
    /\ procs = NoProcs
    /\ tree \in Dicts(AllFiles, 0..1)
    /\ walk = NoWalk
    /\ bulk = NoBulk
    /\ pool = NoPool
    /\ merge = NoMerge

\* for current_dir_path, dir_names, file_names in root_dir.walk(): the first directory
WalkRoot ==
    /\ walk.st = "idle"
    /\ walk' = [walk EXCEPT !.st = "walking", !.stack = << <<>> >>]
    /\ UNCHANGED <<mainvars, procs, tree, bulk, pool, merge>>

\* walk() lists the next directory; the loop body filters dir_names and file_names
\* in place, and walk() will descend into the dir_names that are left
ListDir ==
    /\ walk.st = "walking"
    /\ walk.file_names = {}
    /\ walk.stack # <<>>
    /\ LET dir == Head(walk.stack)
           dir_names == {d \in DirsIn(dir) : permitted(d)}
           file_names == {f \in FilesIn(dir) : permitted(f)}
       IN  \E sub \in Lists({Append(dir, d) : d \in dir_names}) :
              walk' = [walk EXCEPT !.cur = dir, !.file_names = file_names,
                                   !.stack = sub \o Tail(walk.stack)]
    /\ UNCHANGED <<mainvars, procs, tree, bulk, pool, merge>>

\* file_path.exists() for the next file name
Exists(f) ==
    /\ walk.st = "walking"
    /\ walk.checked = <<>>
    /\ f \in walk.file_names
    /\ walk' = IF Append(walk.cur, f) \in DOMAIN tree
               THEN [walk EXCEPT !.checked = f]
               ELSE [walk EXCEPT !.file_names = @ \ {f}]
    /\ UNCHANGED <<mainvars, procs, tree, bulk, pool, merge>>

\* file_path.stat().st_mtime, and index[str(file_path)] = mtime when it is truthy;
\* stat() raises FileNotFoundError for a file that is gone, and nothing catches it
Stat ==
    /\ walk.st = "walking"
    /\ walk.checked # <<>>
    /\ LET file == Append(walk.cur, walk.checked)
       IN  walk' = IF file \notin DOMAIN tree
                   THEN [walk EXCEPT !.st = "raised"]
                   ELSE [walk EXCEPT
                           !.checked = <<>>,
                           !.file_names = @ \ {walk.checked},
                           !.index = IF tree[file] = 0 THEN @
                                     ELSE [p \in DOMAIN @ \cup {file} |->
                                             IF p = file THEN tree[file] ELSE @[p]]]
    /\ UNCHANGED <<mainvars, procs, tree, bulk, pool, merge>>

\* return index
WalkDone ==
    /\ walk.st = "walking"
    /\ walk.file_names = {}
    /\ walk.stack = <<>>
    /\ walk' = [walk EXCEPT !.st = "done"]
    /\ UNCHANGED <<mainvars, procs, tree, bulk, pool, merge>>

\* another process removes a file while the root is walked
Unlink(file) ==
    /\ walk.st = "walking"
    /\ walk.removed < MaxFsEvents
    /\ file \in DOMAIN tree
    /\ tree' = [p \in DOMAIN tree \ {file} |-> tree[p]]
    /\ walk' = [walk EXCEPT !.removed = @ + 1]
    /\ UNCHANGED <<mainvars, procs, bulk, pool, merge>>

NextWalk ==
    \/ WalkRoot
    \/ ListDir
    \/ \E f \in FileNames : Exists(f)
    \/ Stat
    \/ WalkDone
    \/ \E file \in AllFiles : Unlink(file)

\* compute_dir_index walking one root while other processes remove files
SpecWalk == InitWalk /\ [][NextWalk]_vars

\* ------------------------------------------- backup.py, compute_dir_index
\* dirs_to_sync of backup.py: the first-level directories that are walked
DirsToSync == {<<"d">>}

\* the files that may exist below the root that backup.py walks
BackupFiles ==
    {<<<<"a">>>>, <<<<".", "d">>, <<"a">>>>}
        \cup {<<<<"d">>, f>> : f \in FileNames}
        \cup {<<<<"d">>, d, <<"a">>>> : d \in {<<".", "d">>, <<"d", "~">>}}

InitBackupWalk ==
    /\ MainOff
    /\ procs = NoProcs
    /\ tree \in Dicts(BackupFiles, 0..1)
    /\ walk = NoWalk
    /\ bulk = NoBulk
    /\ pool = NoPool
    /\ merge = NoMerge

\* for root, dirs, files in os.walk(path): the first directory is path
BackupWalkRoot ==
    /\ walk.st = "idle"
    /\ walk' = [walk EXCEPT !.st = "walking", !.stack = << <<>> >>]
    /\ UNCHANGED <<mainvars, procs, tree, bulk, pool, merge>>

\* os.walk lists the next directory.  In path itself the files are dropped and
\* the directories of dirs_to_sync are kept; below, the directories are
\* filtered by the prefixes and the files by the prefixes and the suffixes
BackupListDir ==
    /\ walk.st = "walking"
    /\ walk.file_names = {}
    /\ walk.stack # <<>>
    /\ LET root == Head(walk.stack)
           dirs == IF root = <<>>
                   THEN {d \in DirsIn(root) : d \in DirsToSync}
                   ELSE {d \in DirsIn(root) : ~(\E pre \in PREFIXES : startswith(d, pre))}
           files == IF root = <<>> THEN {}
                    ELSE {f \in FilesIn(root) :
                            /\ ~(\E pre \in PREFIXES : startswith(f, pre))
                            /\ ~(\E suf \in SUFFIXES : endswith(f, suf))}
       IN  \E sub \in Lists({Append(root, d) : d \in dirs}) :
              walk' = [walk EXCEPT !.cur = root, !.file_names = files,
                                   !.stack = sub \o Tail(walk.stack)]
    /\ UNCHANGED <<mainvars, procs, tree, bulk, pool, merge>>

\* with open(full_file_path, 'r'): index[rel_file_path] = os.path.getmtime(...);
\* except OSError: continue -- a file that is gone is left out
BackupRecord(f) ==
    /\ walk.st = "walking"
    /\ f \in walk.file_names
    /\ LET file == Append(walk.cur, f)
       IN  walk' = [walk EXCEPT
                      !.file_names = @ \ {f},
                      !.index = IF file \notin DOMAIN tree THEN @
                                ELSE [p \in DOMAIN @ \cup {file} |->
                                        IF p = file THEN tree[file] ELSE @[p]]]
    /\ UNCHANGED <<mainvars, procs, tree, bulk, pool, merge>>

\* return index
BackupWalkDone ==
    /\ walk.st = "walking"
    /\ walk.file_names = {}
    /\ walk.stack = <<>>
    /\ walk' = [walk EXCEPT !.st = "done"]
    /\ UNCHANGED <<mainvars, procs, tree, bulk, pool, merge>>

NextBackupWalk ==
    \/ BackupWalkRoot
    \/ BackupListDir
    \/ \E f \in FileNames : BackupRecord(f)
    \/ BackupWalkDone
    \/ \E file \in BackupFiles : Unlink(file)

\* backup.py's compute_dir_index walking the root while other processes remove files
SpecBackupWalk == InitBackupWalk /\ [][NextBackupWalk]_vars

\* ------------------------------------------- update_bucket, the delete batches
\* data["deleted"] is list(set): n different keys
InitChunks ==
    /\ MainOff
    /\ procs = NoProcs
    /\ tree = EmptyDict
    /\ walk = NoWalk
    /\ pool = NoPool
    /\ merge = NoMerge
    /\ bulk \in {[st |-> "idle", to_delete |-> [i \in 1..n |-> i], chunks |-> <<>>] : n \in 0..MaxKeys}

\* to_delete = [to_delete[i : i + 1000] for i in range(0, len(to_delete), 1000)]
Chunk ==
    /\ bulk.st = "idle"
    /\ bulk' = [bulk EXCEPT !.st = "chunked", !.chunks = Chunks(bulk.to_delete, BATCH)]
    /\ UNCHANGED <<mainvars, procs, tree, walk, pool, merge>>

SpecChunks == InitChunks /\ [][Chunk]_vars

\* ------------------------------------------- backup.py, execute_threads
\* max(a, b)
Max(a, b) == IF a >= b THEN a ELSE b

\* super_args as aws_sync builds it: the deleted keys first (delete is True), then
\* the created and modified ones.  max_workers = max(len(super_args),
\* os.cpu_count() + 4), and the executor is made
InitThreads ==
    /\ MainOff
    /\ procs = NoProcs
    /\ tree = EmptyDict
    /\ walk = NoWalk
    /\ bulk = NoBulk
    /\ merge = NoMerge
    /\ pool \in {[st |-> "submitting", cpu_count |-> c, max_workers |-> Max(n, c + 4),
                   next |-> 1, unit |-> [i \in 1..n |-> "new"],
                   delete |-> [i \in 1..n |-> i <= d], seen |-> {},
                   uploaded |-> 0, deleted |-> 0, logged |-> 0] :
                     n \in 0..MaxUnits, d \in 0..MaxUnits, c \in 1..MaxCpus}

\* the calls that run in a thread of the pool
Running == {i \in DOMAIN pool.unit : pool.unit[i] = "running"}

\* executor.submit(handle_object, super_args[i]): the call is queued
Submit ==
    /\ pool.st = "submitting"
    /\ pool.next <= Len(pool.unit)
    /\ pool' = [pool EXCEPT !.unit[pool.next] = "queued", !.next = @ + 1]
    /\ UNCHANGED <<mainvars, procs, tree, walk, bulk, merge>>

\* the for loop over super_args is over
Submitted ==
    /\ pool.st = "submitting"
    /\ pool.next > Len(pool.unit)
    /\ pool' = [pool EXCEPT !.st = "collecting"]
    /\ UNCHANGED <<mainvars, procs, tree, walk, bulk, merge>>

\* a thread of the pool takes a queued call; the executor starts a thread for a
\* call when none is idle and it has fewer than max_workers threads
Begin(i) ==
    /\ pool.st \in {"submitting", "collecting"}
    /\ pool.unit[i] = "queued"
    /\ Cardinality(Running) < pool.max_workers
    /\ pool' = [pool EXCEPT !.unit[i] = "running"]
    /\ UNCHANGED <<mainvars, procs, tree, walk, bulk, merge>>

\* the calls whose store call raised
Raised == {i \in DOMAIN pool.unit : pool.unit[i] = "raised"}

\* handle_object returns True, or the store call raises
Finish(i) ==
    /\ pool.st \in {"submitting", "collecting"}
    /\ pool.unit[i] = "running"
    /\ \E outcome \in {"returned"} \cup (IF Cardinality(Raised) < MaxFailures THEN {"raised"} ELSE {}) :
          pool' = [pool EXCEPT !.unit[i] = outcome]
    /\ UNCHANGED <<mainvars, procs, tree, walk, bulk, merge>>

\* Collect counting a future whatever its result
Collect_all(i) ==
    /\ pool.st = "collecting"
    /\ pool.unit[i] \in {"returned", "raised"}
    /\ i \notin pool.seen
    /\ pool' = [pool EXCEPT !.seen = @ \cup {i},
                            !.deleted = IF pool.delete[i] THEN @ + 1 ELSE @,
                            !.uploaded = IF pool.delete[i] THEN @ ELSE @ + 1]
    /\ UNCHANGED <<mainvars, procs, tree, walk, bulk, merge>>

\* for future in as_completed(future_keys): a completed future is yielded, once;
\* future.result() returns and the unit is counted, or it raises and is printed
Collect(i) ==
    /\ pool.st = "collecting"
    /\ pool.unit[i] \in {"returned", "raised"}
    /\ i \notin pool.seen
    /\ pool' = IF pool.unit[i] = "raised"
               THEN [pool EXCEPT !.seen = @ \cup {i}, !.logged = @ + 1]
               ELSE [pool EXCEPT !.seen = @ \cup {i},
                                 !.deleted = IF pool.delete[i] THEN @ + 1 ELSE @,
                                 !.uploaded = IF pool.delete[i] THEN @ ELSE @ + 1]
    /\ UNCHANGED <<mainvars, procs, tree, walk, bulk, merge>>

\* as_completed has yielded every future: the with block shuts the executor down
Shutdown ==
    /\ pool.st = "collecting"
    /\ pool.seen = DOMAIN pool.unit
    /\ pool' = [pool EXCEPT !.st = "done"]
    /\ UNCHANGED <<mainvars, procs, tree, walk, bulk, merge>>

NextThreads ==
    \/ Submit
    \/ Submitted
    \/ \E i \in DOMAIN pool.unit : Begin(i)
    \/ \E i \in DOMAIN pool.unit : Finish(i)
    \/ \E i \in DOMAIN pool.unit : Collect(i)
    \/ Shutdown

SpecThreads == InitThreads /\ [][NextThreads]_vars

\* ------------------------------------------- compute_index, the merge
\* the paths two roots may both yield (a root listed twice, or one below the other)
MergeKeys == {"x", "y"}
MergeMtimes == {1, 2}

\* the tasks in the order their threads finished
MergeOrder_finished(n) == merge.finished

\* indexes = [tg.create_task(coro) for coro in coros]: the order of DIRECTORIES
MergeOrder(n) == [i \in 1..n |-> i]

\* {key: value for index in indexes for key, value in index.result().items()}:
\* a key met again gets the value met last
RECURSIVE Merged(_, _)
Merged(parts, order) ==
    IF order = <<>> THEN EmptyDict
    ELSE LET rest == Merged(parts, SubSeq(order, 1, Len(order) - 1))
             last == parts[order[Len(order)]]
         IN  [k \in DOMAIN rest \cup DOMAIN last |-> IF k \in DOMAIN last THEN last[k] ELSE rest[k]]

\* one thread per directory was started; parts[i] is what compute_dir_index
\* returns for the i-th directory
InitMerge ==
    /\ MainOff
    /\ procs = NoProcs
    /\ tree = EmptyDict
    /\ walk = NoWalk
    /\ bulk = NoBulk
    /\ pool = NoPool
    /\ \E n \in 1..MaxRoots :
          merge \in [st : {"walking"}, parts : [1..n -> Dicts(MergeKeys, MergeMtimes)],
                     finished : {<<>>}, index : {EmptyDict}]

\* the thread of the i-th directory returns its index
WalkerReturns(i) ==
    /\ merge.st = "walking"
    /\ i \in DOMAIN merge.parts
    /\ i \notin Range(merge.finished)
    /\ merge' = [merge EXCEPT !.finished = Append(@, i)]
    /\ UNCHANGED <<mainvars, procs, tree, walk, bulk, pool>>

\* the thread of the i-th directory raises: the task group raises in compute_index
WalkerRaises(i) ==
    /\ merge.st = "walking"
    /\ i \in DOMAIN merge.parts
    /\ i \notin Range(merge.finished)
    /\ merge' = [merge EXCEPT !.st = "raised"]
    /\ UNCHANGED <<mainvars, procs, tree, walk, bulk, pool>>

\* every task is done: return the merged dict
Merge ==
    /\ merge.st = "walking"
    /\ Len(merge.finished) = Len(merge.parts)
    /\ merge' = [merge EXCEPT !.st = "merged",
                              !.index = Merged(merge.parts, MergeOrder(Len(merge.parts)))]
    /\ UNCHANGED <<mainvars, procs, tree, walk, bulk, pool>>

NextMerge ==
    \/ \E i \in 1..MaxRoots : WalkerReturns(i)
    \/ \E i \in 1..MaxRoots : WalkerRaises(i)
    \/ Merge

SpecMerge == InitMerge /\ [][NextMerge]_vars

\* ================================================================ claims
\* units whose task was created and whose store call is not over
InFlight == {i \in DOMAIN task : task[i] \in {"created", "active", "cancelling"}}

\* the keys of the delete batches and the target keys of the uploads
DeleteKeys == UNION {Range(coros[i].keys) : i \in {j \in DOMAIN coros : coros[j].kind = "delete"}}
UploadKeys == {lstrip(coros[i].path) : i \in {j \in DOMAIN coros : coros[j].kind = "upload"}}

\* a store key has a path of the new index that is uploaded under it
HasPath(k) == \E p \in DOMAIN new_index : lstrip(p) = k

\* C1: at every moment the number of units whose task was created and that have
\* not finished is at most MAX_ACTIVE_TASKS.
C1_InFlightBounded == Cardinality(InFlight) <= MAX_ACTIVE_TASKS

\* C1 witness: the cap is reached while a unit is still waiting to be admitted
C1_Witness ==
    /\ pc = "sleeping"
    /\ next_coro <= Len(coros)
    /\ Cardinality(InFlight) >= 2
    /\ active_tasks = MAX_ACTIVE_TASKS

\* C2: when a unit's store call fails (no file having been removed), no other unit
\* is cancelled and update_bucket does not raise.
C2_FailureIsolated ==
    (fsEvents = 0 /\ \E i \in DOMAIN task : task[i] \in {"logged", "raised"})
        => /\ pc \notin {"aborting", "error"}
           /\ \A j \in DOMAIN task : task[j] \notin {"cancelling", "cancelled"}

\* C3: no key is both in a delete batch and the target key of an upload of the run.
C3_DeleteUploadDisjoint == DeleteKeys \cap UploadKeys = {}

\* C4: once the diff is computed, a path of the new index whose key is listed in the
\* bucket and whose mtime equals the persisted one is neither staged for upload nor
\* is its key staged for deletion.
C4_UnchangedUntouched ==
    pc = "stage" =>
        \A p \in DOMAIN new_index :
            (/\ lstrip(p) \in bucket_files
             /\ p \in DOMAIN old_index
             /\ old_index[p] = new_index[p])
            => /\ p \notin Range(data.created) \cup Range(data.modified)
               /\ lstrip(p) \notin {lstrip(k) : k \in Range(data.deleted)}

\* C5: after a run that ended normally, every unit having succeeded and no file
\* having been removed, every path of the new index has an object under its key
\* whose size is the file's size.
C5_Completeness ==
    (pc = "done" /\ fsEvents = 0 /\ \A i \in DOMAIN task : task[i] = "ok")
        => \A p \in DOMAIN new_index :
              /\ lstrip(p) \in DOMAIN store
              /\ store[lstrip(p)] = fs[NameOf(p)].size

C7_SecondRunEmpty ==
    (run > 1 /\ prev.end \in {"done", "exited"} /\ fsEvents = 0)
        => /\ pc \in {"start", "index", "compare", "exited"}
           /\ coros = <<>>
           /\ data = NoData

\* C7 witness: the second run has exited after a first run that had units
C7_Witness ==
    /\ run = 2
    /\ prev.end = "done"
    /\ prev.units > 0
    /\ fsEvents = 0
    /\ pc = "exited"

\* C8: no upload call is made for a file that is no longer on disk, and a file
\* removed after the walk does not keep the other units from being executed.
C8_RaceSafe == ~missing_upload /\ error # "stat"

\* C9: when the root cannot be read, no unit is dispatched.
C9_UnreadableRootAborts ==
    ~readable => \A i \in DOMAIN task : task[i] = "pending"

\* C10: when listing the bucket fails, no unit is dispatched and logs/index.json
\* is what it was when the run started.
C10_ListFailureAborts ==
    error = "list" => /\ coros = <<>>
                      /\ task = <<>>
                      /\ index_file = index_file0

\* C10 witness: the listing failed in a run that had files to upload or delete
C10_Witness ==
    /\ error = "list"
    /\ pc = "error"
    /\ DOMAIN new_index # {}
    /\ DOMAIN store # {}

\* C11: at no time have two instances both passed the guard of init_set_up while
\* both are running.
C11_OnePastGuard == Cardinality({i \in Instances : procs[i].st = "passed"}) <= 1

\* C12: once update_bucket starts its loop over the units, it is eventually left:
\* it returns to main, or a unit's exception leaves it.
C12_UpdateBucketEnds == (pc = "dispatch") ~> (pc \in {"persist", "error"})

\* C13: compute_dir_index does not raise, whenever a file is removed.
C13_WalkNeverRaises == walk.st # "raised"

\* a name starts with an excluded prefix or ends with an excluded suffix
Excluded(x) ==
    \/ \E pre \in PREFIXES : Len(x) >= Len(pre) /\ \A k \in 1..Len(pre) : x[k] = pre[k]
    \/ \E suf \in SUFFIXES :
          Len(x) >= Len(suf) /\ \A k \in 1..Len(suf) : x[Len(x) - Len(suf) + k] = suf[k]

\* C14: no part of a path of the index is an excluded name, and no part of a
\* directory that the walk lists or is about to list is one.
C14_Exclusion ==
    /\ \A p \in DOMAIN walk.index : \A k \in 1..Len(p) : ~Excluded(p[k])
    /\ \A k \in 1..Len(walk.cur) : ~Excluded(walk.cur[k])
    /\ \A i \in 1..Len(walk.stack) : \A k \in 1..Len(walk.stack[i]) : ~Excluded(walk.stack[i][k])

\* C14 witness: the walk is over, the tree holds an excluded file, a file in a
\* directory excluded by prefix and one in a directory excluded by suffix, and
\* the index is not empty
C14_Witness ==
    /\ walk.st = "done"
    /\ walk.removed = 0
    /\ {<< <<"a", "~">> >>, << <<".", "d">>, <<"a">> >>, << <<"d", "~">>, <<"a">> >>} \subseteq DOMAIN tree
    /\ << <<"d">>, <<"a">> >> \in DOMAIN walk.index

\* C15: n keys to delete make ceil(n / 1000) batches of 1 to 1000 keys each, and
\* every key is in exactly one batch.
C15_Batches ==
    bulk.st = "chunked" =>
        LET n == Len(bulk.to_delete)
            batch == [b \in DOMAIN bulk.chunks |-> Range(bulk.chunks[b])]
        IN  /\ Len(bulk.chunks) * 1000 >= n
            /\ (Len(bulk.chunks) - 1) * 1000 < n
            /\ \A b \in DOMAIN bulk.chunks : Len(bulk.chunks[b]) \in 1..1000
            /\ \A b \in DOMAIN bulk.chunks : Cardinality(batch[b]) = Len(bulk.chunks[b])
            /\ UNION {batch[b] : b \in DOMAIN bulk.chunks} = Range(bulk.to_delete)
            /\ \A b, c \in DOMAIN bulk.chunks : b # c => batch[b] \cap batch[c] = {}

\* C15 witness: 2500 keys were put in batches of 1000, 1000 and 500
C15_Witness ==
    /\ bulk.st = "chunked"
    /\ Len(bulk.to_delete) = 2500
    /\ [b \in DOMAIN bulk.chunks |-> Len(bulk.chunks[b])] = <<1000, 1000, 500>>

\* C16: the index file is overwritten only once every unit was dispatched and has
\* finished, and it is left as it was when the run ends with an error.
C16_PersistAfterUnits ==
    /\ index_file # index_file0 =>
          /\ pc = "done"
          /\ next_coro > Len(coros)
          /\ \A i \in DOMAIN task : task[i] \in {"ok", "logged"}
    /\ pc = "error" => index_file = index_file0

\* C16 witness: the index file was overwritten after two units or more finished
C16_Witness ==
    /\ pc = "done"
    /\ index_file # index_file0
    /\ Len(coros) >= 2
    /\ MAX_ACTIVE_TASKS = 2

\* C17: a run in which a unit failed ends with a status that is not zero.
C17_FailureStatus ==
    (pc \in {"done", "exited", "error"} /\ \E i \in DOMAIN task : task[i] \in {"logged", "raised"})
        => ExitStatus # 0

\* C18: the lists compute_diff returns hold, each path once, the store keys that
\* are no path of the new index, the paths of the new index that are no store
\* key, and the paths of both indexes whose mtimes differ.
C18_Diff ==
    pc \in {"stage", "dispatch", "sleeping", "joining", "aborting", "persist", "done"} =>
        /\ \A k \in bucket_files \cup DOMAIN new_index :
              /\ (k \in Range(data.deleted)) <=> (k \in bucket_files /\ k \notin DOMAIN new_index)
              /\ (k \in Range(data.created)) <=> (k \in DOMAIN new_index /\ k \notin bucket_files)
              /\ (k \in Range(data.modified)) <=>
                    (k \in DOMAIN new_index /\ k \in DOMAIN old_index /\ new_index[k] # old_index[k])
        /\ Range(data.deleted) \cup Range(data.created) \cup Range(data.modified)
              \subseteq bucket_files \cup DOMAIN new_index
        /\ \A l \in {data.deleted, data.created, data.modified} : Cardinality(Range(l)) = Len(l)

\* C18 witness: compute_diff returned a deleted key, a created path, a modified
\* path, and a path of both indexes was left out as not modified
C18_Witness ==
    /\ pc = "stage"
    /\ data.deleted # <<>>
    /\ data.created # <<>>
    /\ data.modified # <<>>
    /\ \E f \in DOMAIN new_index \cap DOMAIN old_index : new_index[f] = old_index[f]

\* C20: the units are created in the order of the plan, in which every delete
\* batch comes before every upload and the uploads come by size, smallest first.
C20_Order ==
    /\ {i \in DOMAIN task : task[i] # "pending"} = 1..(next_coro - 1)
    /\ \A i, j \in DOMAIN coros :
          (i < j /\ coros[j].kind = "delete") => coros[i].kind = "delete"
    /\ \A i, j \in DOMAIN coros :
          (i < j /\ coros[i].kind = "upload" /\ coros[j].kind = "upload")
              => fs[NameOf(coros[i].path)].size <= fs[NameOf(coros[j].path)].size

\* C20 witness: a delete batch and two uploads of different sizes were all dispatched
C20_Witness ==
    /\ pc = "joining"
    /\ Len(coros) = 3
    /\ coros[1].kind = "delete"
    /\ fs[NameOf(coros[2].path)].size < fs[NameOf(coros[3].path)].size

\* C19: the calls of handle_object that run at the same time are never more than
\* os.cpu_count() + 4, the part of max_workers that does not depend on the plan.
C19_PoolBound == Cardinality(Running) <= pool.cpu_count + 4

\* C21: the index compute_index returns has the keys of all the per-root indexes,
\* and each key has the mtime of the last directory of DIRECTORIES that yields it,
\* in whatever order the threads finished.
C21_MergeLastWins ==
    merge.st = "merged" =>
        /\ \A k \in MergeKeys :
              (k \in DOMAIN merge.index) <=> (\E i \in DOMAIN merge.parts : k \in DOMAIN merge.parts[i])
        /\ \A k \in DOMAIN merge.index :
              \E i \in DOMAIN merge.parts :
                 /\ k \in DOMAIN merge.parts[i]
                 /\ merge.index[k] = merge.parts[i][k]
                 /\ \A j \in DOMAIN merge.parts : j > i => k \notin DOMAIN merge.parts[j]

\* C21 witness: two directories yield the same key with different mtimes, the
\* thread of the second finished first, and the dict was merged
C21_Witness ==
    /\ merge.st = "merged"
    /\ merge.finished = <<2, 1>>
    /\ "x" \in DOMAIN merge.parts[1] \cap DOMAIN merge.parts[2]
    /\ merge.parts[1]["x"] # merge.parts[2]["x"]

\* C22: when execute_threads is over, uploaded is the number of uploads whose call
\* returned, deleted the number of deletes whose call returned, every call that
\* raised was printed once, and the three add up to the number of units.
C22_Counters ==
    pool.st = "done" =>
        /\ pool.uploaded = Cardinality({i \in DOMAIN pool.unit : ~pool.delete[i] /\ pool.unit[i] = "returned"})
        /\ pool.deleted = Cardinality({i \in DOMAIN pool.unit : pool.delete[i] /\ pool.unit[i] = "returned"})
        /\ pool.logged = Cardinality({i \in DOMAIN pool.unit : pool.unit[i] = "raised"})
        /\ pool.uploaded + pool.deleted + pool.logged = Len(pool.unit)

\* C22 witness: execute_threads is over with an upload and a delete counted and a
\* failed call printed
C22_Witness ==
    /\ pool.st = "done"
    /\ pool.uploaded >= 1
    /\ pool.deleted >= 1
    /\ pool.logged >= 1

\* C23: when an upload failed in a run that ended normally and nothing changed
\* since, the next run, once over, has staged an upload of that path.
C23_FailedUploadRestaged ==
    (run > 1 /\ prev.end = "done" /\ fsEvents = 0 /\ pc \in {"done", "exited"})
        => \A p \in prev.failed :
              \E i \in DOMAIN coros : coros[i].kind = "upload" /\ coros[i].path = p

\* C24: the instances that were started are never all refused by the guard.
C24_OnePasses == \E i \in Instances : procs[i].st # "refused"

\* C25: no path is in both created and modified, and no two upload units of a
\* run have the same path.
C25_OneUploadPerPath ==
    /\ Range(data.created) \cap Range(data.modified) = {}
    /\ \A i, j \in DOMAIN coros :
          (i # j /\ coros[i].kind = "upload" /\ coros[j].kind = "upload")
              => coros[i].path # coros[j].path

\* C26: a run that ends at the comparison of the indexes, the new one being equal
\* to the old one, has called the store not once and leaves the bucket and the
\* index file as they were.
C26_EqualIndexesNoCall ==
    pc = "exited" =>
        /\ new_index = old_index
        /\ store_calls = 0
        /\ store = store0
        /\ index_file = index_file0

\* C26 witness: the run ended at the comparison with files in the index and a
\* bucket that differs from the tree
C26_Witness ==
    /\ pc = "exited"
    /\ new_index # EmptyDict
    /\ DOMAIN store # {lstrip(p) : p \in DOMAIN new_index}

\* C27: in backup.py no path of the index has, below the first level, a
\* directory whose name starts with an excluded prefix or ends with an excluded
\* suffix.
C27_SuffixDirsPruned ==
    \A p \in DOMAIN walk.index : \A k \in 2..(Len(p) - 1) : ~Excluded(p[k])

\* C28: when the walk of sdk.py is over and no file was removed meanwhile, every
\* file whose name and directories the filter admits is in the index with its
\* mtime.
C28_AdmittedIndexed ==
    (walk.st = "done" /\ walk.removed = 0) =>
        \A p \in DOMAIN tree :
            (\A k \in 1..Len(p) : ~Excluded(p[k]))
                => (p \in DOMAIN walk.index /\ walk.index[p] = tree[p])

====
